---- MODULE Spec2Model ----
(***************************************************************************)
(* Waterfall gallery (src/src/pages/Index.tsx, component Index).           *)
(*                                                                         *)
(* Spec is one layout pass of the component: the layout effect calls       *)
(* calculateWaterfallLayout(sortedImages, columnCount), whose map callback *)
(* places one image per step, then stores the result with                  *)
(* setPositionedImages; the following render evaluates the containerHeight *)
(* and containerWidth memos that size the gallery container.               *)
(*                                                                         *)
(* RelayoutSpec repeats the pass on the same input.  GallerySpec is the    *)
(* component around the layout: imports, shuffle, reset, sorting and the   *)
(* batches of the dimension resolver, each handler one step with the       *)
(* render and effects it causes.  ViewSpec adds the view controls (column  *)
(* count, fullscreen) and window resizes to imports and resets.            *)
(*                                                                         *)
(* ScaleSpec repeats the pass in a container twice as wide.  SearchSpec    *)
(* is the search box with the sort controls, DragSpec the drag overlay     *)
(* with the drop, PreviewSpec the preview and the tiles it is opened from, *)
(* with the render after a dimension batch and its layout effect as two    *)
(* steps, and ResetSpec the resets of a gallery whose settings were        *)
(* changed.                                                                *)
(*                                                                         *)
(* Numbers.  An image carries its natural size (width, height); the code's *)
(* aspectRatio is the double width / height, kept here as the exact        *)
(* fraction.  The model computes with the exact quotient.  Every pair of Dims has, in lowest terms, an odd width  *)
(* or a power-of-two height: for such a pair the double quotient           *)
(* imageWidth / aspectRatio rounds (Math.round) to the same integer as the *)
(* exact quotient, because either the ratio is exactly representable, or   *)
(* the exact quotient is never half-way between two integers.              *)
(***************************************************************************)
EXTENDS Integers, Sequences, FiniteSets, TLC

VARIABLES
    innerWidth,        \* window.innerWidth
    isFullscreen,      \* state isFullscreen
    columnCount,       \* state columnCount
    sortedImages,      \* memo sortedImages: the sequence handed to the layout
    columnHeights,     \* calculateWaterfallLayout: the accumulator, 0-based
    positioned,        \* calculateWaterfallLayout: the output of map so far
    positionedImages,  \* state positionedImages
    containerHeight,   \* memo containerHeight
    containerWidth,    \* memo containerWidth
    pc,                \* position of the pass: "layout", "effect", "render", "done"
    isDarkMode,        \* state isDarkMode
    passes,            \* history: the layout passes started so far
    lastLayout,        \* history: what the pass before the current one produced
    images,            \* state images
    imagesWithDimensions, \* state imagesWithDimensions
    sortCriteria,      \* state sortCriteria
    sortOrder,         \* state sortOrder
    isShuffled,        \* state isShuffled
    batches,           \* the loadDimensions calls awaiting their Promise.all, oldest first
    hotkeyImages,      \* images as captured by the keydown listener's handleReset
    nextId,            \* the assets created so far are 1 .. nextId - 1
    revoked,           \* the object URLs passed to URL.revokeObjectURL
    started,           \* history: per asset id, the loadImageDimensions calls made for it
    batchesStarted,    \* history: the non-empty loadDimensions calls made
    searchTerm,        \* state searchTerm, a sequence of character codes
    isPreviewOpen,     \* state isPreviewOpen
    previewIndex,      \* state previewIndex, 0-based, -1 when closed
    isDragOver,        \* state isDragOver
    dragCounter,       \* dragCounterRef.current
    dragDepth          \* environment: the dragenter events without their dragleave
                       \* since the last drop

\* the gallery state: the collection, its sort settings and the resolver
galleryVars == <<images, imagesWithDimensions, sortCriteria, sortOrder, isShuffled,
                 batches, hotkeyImages, nextId, revoked, started, batchesStarted>>

\* the preview
previewVars == <<isPreviewOpen, previewIndex>>

\* the drag overlay
dragVars == <<isDragOver, dragCounter, dragDepth>>

\* search, preview and drag overlay
interactionVars == <<searchTerm, previewVars, dragVars>>

\* what a layout pass leaves alone
otherVars == <<isDarkMode, passes, lastLayout, galleryVars, interactionVars>>

vars == <<innerWidth, isFullscreen, columnCount, sortedImages, columnHeights,
          positioned, positionedImages, containerHeight, containerWidth, pc,
          otherVars>>

(***************************************************************************)
(* Bounds and input domains                                                *)
(***************************************************************************)
MaxImages == 3

\* layout passes over one and the same input
MaxPasses == 2

\* assets imported in one run of the gallery
MaxAssets == 2

\* non-empty loadDimensions calls in one run of the gallery
MaxBatches == 2

\* natural sizes <<naturalWidth, naturalHeight>>; 300 x 200 is the resolver's fallback
Dims == {<<4, 1>>, <<2, 1>>, <<1, 1>>, <<300, 200>>, <<1, 4>>}

\* viewport widths: container width 1 and 17 (narrower than the gaps), 632, and
\* a viewport wider than the max-w-7xl cap
InnerWidths == {33, 49, 664, 1500}

minColumns == 1
maxColumns == 10

(***************************************************************************)
(* Arithmetic helpers                                                      *)
(***************************************************************************)
Min2(a, b) == IF a <= b THEN a ELSE b

SetMax(S) == CHOOSE x \in S : \A y \in S : y <= x

SetMin(S) == CHOOSE x \in S : \A y \in S : x <= y

\* Math.floor(num / den), den > 0
MathFloorDiv(num, den) == num \div den

FloorQuotient(num, den) == num \div den

\* Math.round(num / den), den > 0: the nearest integer, a half rounds up
MathRound(num, den) == (2 * num + den) \div (2 * den)

(***************************************************************************)
(* calculateWaterfallLayout                                                *)
(***************************************************************************)
gap == 16

viewportPadding == 32

maxContainerWidth == 1280

UncappedContainerWidth(w, fullscreen) == w - viewportPadding

containerMaxWidth(w, fullscreen) ==
    IF fullscreen
    THEN w - viewportPadding
    ELSE Min2(w - viewportPadding, maxContainerWidth)

availableWidth(w, fullscreen, k) == containerMaxWidth(w, fullscreen) - gap * (k - 1)

ImageWidthNoGap(w, fullscreen, k) == MathFloorDiv(containerMaxWidth(w, fullscreen), k)

imageWidth(w, fullscreen, k) == MathFloorDiv(availableWidth(w, fullscreen, k), k)

\* new Array(columnCount).fill(0)
NewColumnHeights(k) == [c \in 0 .. k - 1 |-> 0]

\* Math.min(...columnHeights)
MathMin(heights) == SetMin({heights[c] : c \in DOMAIN heights})

LastIndexOfMin(heights) ==
    SetMax({c \in DOMAIN heights : heights[c] = MathMin(heights)})

IndexOfMax(heights) ==
    SetMin({c \in DOMAIN heights : \A d \in DOMAIN heights : heights[d] <= heights[c]})

\* columnHeights.indexOf(Math.min(...columnHeights)): the first index holding the minimum
shortestColumnIndex(heights) ==
    SetMin({c \in DOMAIN heights : heights[c] = MathMin(heights)})

NextImageReversed(imgs, done) == imgs[Len(imgs) - Len(done)]

\* images.map((image) => ...): the callback runs on the images in input order
NextImage(imgs, done) == imgs[Len(done) + 1]

\* Math.round(imageWidth / image.aspectRatio); aspectRatio is kept as the exact
\* fraction <<numerator, denominator>>
calculatedHeight(w, image) == MathRound(w * image.aspectRatio[2], image.aspectRatio[1])

AddHeightWithoutGap(heights, c, h) == [heights EXCEPT ![c] = @ + h]

AddToFirstColumn(heights, c, h) == [heights EXCEPT ![0] = @ + h + gap]

\* columnHeights[shortestColumnIndex] += totalCardHeight + gap
AddToColumn(heights, c, h) == [heights EXCEPT ![c] = @ + h + gap]

\* the PositionedImage the map callback returns: { ...image, column, top, ... }
PositionedImage(image, heights, w) ==
    [column           |-> shortestColumnIndex(heights),
     top              |-> heights[shortestColumnIndex(heights)],
     calculatedHeight |-> calculatedHeight(w, image),
     calculatedWidth  |-> w] @@ image

(***************************************************************************)
(* The memos that size the container                                       *)
(***************************************************************************)
\* columnHeights of the containerHeight memo after its forEach
BottomEdges(imgs, k) ==
    [c \in 0 .. k - 1 |->
        SetMax({0} \cup {imgs[i].top + imgs[i].calculatedHeight :
                            i \in {j \in DOMAIN imgs : imgs[j].column = c}})]

ContainerHeightWithGap(imgs, k) ==
    IF Len(imgs) = 0 THEN 0
    ELSE SetMax({BottomEdges(imgs, k)[c] : c \in 0 .. k - 1}) + gap

containerHeightMemo(imgs, k) ==
    IF Len(imgs) = 0 THEN 0
    ELSE SetMax({BottomEdges(imgs, k)[c] : c \in 0 .. k - 1})

defaultImageWidth == 300

\* positionedImages[0]?.calculatedWidth || 300: 0 is falsy
FirstWidthOrDefault(imgs) ==
    IF Len(imgs) = 0 \/ imgs[1].calculatedWidth = 0
    THEN defaultImageWidth
    ELSE imgs[1].calculatedWidth

ContainerWidthWithoutEmptyCase(imgs, k) ==
    FirstWidthOrDefault(imgs) * k + gap * (k - 1)

containerWidthMemo(imgs, k) ==
    IF Len(imgs) = 0 THEN 0
    ELSE FirstWidthOrDefault(imgs) * k + gap * (k - 1)

(***************************************************************************)
(* The layout pass                                                         *)
(***************************************************************************)
ImageSeqs ==
    UNION {[1 .. n -> Dims] : n \in 0 .. MaxImages}

\* the image at position i has id i
AsImages(dims) ==
    [i \in DOMAIN dims |-> [id |-> i, width |-> dims[i][1], height |-> dims[i][2],
                             aspectRatio |-> dims[i]]]

\* the entry of a pass; for an empty sequence the code returns before it
\* allocates columnHeights, which then stays unused
Init ==
    /\ innerWidth \in InnerWidths
    /\ isFullscreen \in BOOLEAN
    /\ columnCount \in minColumns .. maxColumns
    /\ \E dims \in ImageSeqs : sortedImages = AsImages(dims)
    /\ columnHeights = NewColumnHeights(columnCount)
    /\ positioned = <<>>
    /\ positionedImages = <<>>
    /\ containerHeight = 0
    /\ containerWidth = 0
    /\ pc = "layout"
    /\ isDarkMode = FALSE
    /\ passes = 1
    /\ lastLayout = [positionedImages |-> <<>>, containerHeight |-> 0, containerWidth |-> 0]
    /\ images = <<>>
    /\ imagesWithDimensions = <<>>
    /\ sortCriteria = "name"
    /\ sortOrder = "asc"
    /\ isShuffled = FALSE
    /\ batches = <<>>
    /\ hotkeyImages = <<>>
    /\ nextId = 1
    /\ revoked = {}
    /\ started = [id \in 1 .. MaxAssets |-> 0]
    /\ batchesStarted = 0
    /\ searchTerm = <<>>
    /\ isPreviewOpen = FALSE
    /\ previewIndex = -1
    /\ isDragOver = FALSE
    /\ dragCounter = 0
    /\ dragDepth = 0

\* one call of the map callback
PlaceImage ==
    /\ pc = "layout"
    /\ Len(positioned) < Len(sortedImages)
    /\ LET image == NextImage(sortedImages, positioned)
           w     == imageWidth(innerWidth, isFullscreen, columnCount)
           p     == PositionedImage(image, columnHeights, w)
       IN /\ positioned' = Append(positioned, p)
          /\ columnHeights' = AddToColumn(columnHeights, p.column, p.calculatedHeight)
    /\ UNCHANGED <<innerWidth, isFullscreen, columnCount, sortedImages,
                   positionedImages, containerHeight, containerWidth, pc>>
    /\ UNCHANGED otherVars

\* map has returned (or the early return for an empty sequence)
LayoutReturn ==
    /\ pc = "layout"
    /\ Len(positioned) = Len(sortedImages)
    /\ pc' = "effect"
    /\ UNCHANGED <<innerWidth, isFullscreen, columnCount, sortedImages, columnHeights,
                   positioned, positionedImages, containerHeight, containerWidth>>
    /\ UNCHANGED otherVars

\* setPositionedImages(positioned)
SetPositionedImages ==
    /\ pc = "effect"
    /\ positionedImages' = positioned
    /\ pc' = "render"
    /\ UNCHANGED <<innerWidth, isFullscreen, columnCount, sortedImages, columnHeights,
                   positioned, containerHeight, containerWidth>>
    /\ UNCHANGED otherVars

\* the render after the state update: the memos are re-evaluated
Render ==
    /\ pc = "render"
    /\ containerHeight' = containerHeightMemo(positionedImages, columnCount)
    /\ containerWidth' = containerWidthMemo(positionedImages, columnCount)
    /\ pc' = "done"
    /\ UNCHANGED <<innerWidth, isFullscreen, columnCount, sortedImages, columnHeights,
                   positioned, positionedImages>>
    /\ UNCHANGED otherVars

Next == PlaceImage \/ LayoutReturn \/ SetPositionedImages \/ Render

Spec == Init /\ [][Next]_vars

(***************************************************************************)
(* Repeated passes.  The layout effect runs again on the same input when   *)
(* sortedImages is a fresh array of equal content (every stored batch of   *)
(* dimensions makes one, e.g. after shuffling a single image); a dark mode *)
(* toggle re-renders with all dependencies of the effect and of the memos  *)
(* unchanged.                                                              *)
(***************************************************************************)
ReusedColumnHeights(previous, k) == previous

\* const columnHeights = new Array(columnCount).fill(0), once per call
PassStartHeights(previous, k) == NewColumnHeights(k)

\* the layout effect runs again
Relayout ==
    /\ pc = "done"
    /\ passes < MaxPasses
    /\ passes' = passes + 1
    /\ lastLayout' = [positionedImages |-> positionedImages,
                      containerHeight  |-> containerHeight,
                      containerWidth   |-> containerWidth]
    /\ columnHeights' = PassStartHeights(columnHeights, columnCount)
    /\ positioned' = <<>>
    /\ pc' = "layout"
    /\ UNCHANGED <<innerWidth, isFullscreen, columnCount, sortedImages,
                   positionedImages, containerHeight, containerWidth, isDarkMode>>
    /\ UNCHANGED galleryVars
    /\ UNCHANGED interactionVars

\* setIsDarkMode(prev => !prev): a render in which no effect and no memo re-runs
ToggleDarkMode ==
    /\ pc = "done"
    /\ isDarkMode' = ~isDarkMode
    /\ UNCHANGED <<innerWidth, isFullscreen, columnCount, sortedImages, columnHeights,
                   positioned, positionedImages, containerHeight, containerWidth, pc,
                   passes, lastLayout>>
    /\ UNCHANGED galleryVars
    /\ UNCHANGED interactionVars

NextRelayout == Next \/ Relayout \/ ToggleDarkMode

RelayoutSpec == Init /\ [][NextRelayout]_vars

(***************************************************************************)
(* The pass repeated for a container twice as wide, sequence and column    *)
(* count kept: what a layout at the doubled width returns.                 *)
(***************************************************************************)
TwiceInnerWidth(w) == 2 * w

\* the window.innerWidth that makes the container twice as wide: the container
\* is window.innerWidth - 32 where the cap of 1280 does not apply
DoubledInnerWidth(w) == 2 * (w - viewportPadding) + viewportPadding

\* the container width is window.innerWidth - 32: fullscreen, or below the cap
Uncapped(w, fullscreen) == containerMaxWidth(w, fullscreen) = w - viewportPadding

\* the layout effect runs again in a window that makes the container twice as wide
RelayoutAtDoubleWidth ==
    /\ pc = "done"
    /\ passes < MaxPasses
    /\ Uncapped(innerWidth, isFullscreen)
    /\ Uncapped(DoubledInnerWidth(innerWidth), isFullscreen)
    /\ innerWidth' = DoubledInnerWidth(innerWidth)
    /\ passes' = passes + 1
    /\ lastLayout' = [positionedImages |-> positionedImages,
                      containerHeight  |-> containerHeight,
                      containerWidth   |-> containerWidth]
    /\ columnHeights' = PassStartHeights(columnHeights, columnCount)
    /\ positioned' = <<>>
    /\ pc' = "layout"
    /\ UNCHANGED <<isFullscreen, columnCount, sortedImages,
                   positionedImages, containerHeight, containerWidth, isDarkMode>>
    /\ UNCHANGED galleryVars
    /\ UNCHANGED interactionVars

NextScale == Next \/ RelayoutAtDoubleWidth

ScaleSpec == Init /\ [][NextScale]_vars

(***************************************************************************)
(* The gallery around the layout: the collection of imported assets, the   *)
(* dimension resolver, sorting and shuffling.  Every event handler is one  *)
(* action that includes the render it causes and the effects of that       *)
(* render; in these specifications pc stays "done".  Text (file names, MIME *)
(* types) is a sequence of character codes.                                *)
(***************************************************************************)
imagePrefix == <<105, 109, 97, 103, 101, 47>>                  \* "image/"

imagePng == imagePrefix \o <<112, 110, 103>>                   \* "image/png"

imageJpeg == imagePrefix \o <<106, 112, 101, 103>>             \* "image/jpeg"

textPlain == <<116, 101, 120, 116, 47, 112, 108, 97, 105, 110>> \* "text/plain"

\* the files offered to the picker or dropped: "b", "a", "B" and "c"; natural is
\* what decoding the file yields, <<>> for a file that does not decode
FileCatalogue ==
    <<[name |-> <<98>>, size |-> 30, type |-> imagePng,  lastModified |-> 2,
       natural |-> <<2, 1>>],
      [name |-> <<97>>, size |-> 10, type |-> imageJpeg, lastModified |-> 3,
       natural |-> <<>>],
      [name |-> <<66>>, size |-> 20, type |-> imagePng,  lastModified |-> 1,
       natural |-> <<3, 2>>],
      [name |-> <<99>>, size |-> 40, type |-> textPlain, lastModified |-> 4,
       natural |-> <<>>]>>

\* the FileLists of one change or drop event
Selections == {<<1>>, <<2>>, <<3, 2>>, <<4>>}

\* text.startsWith(prefix)
startsWith(text, prefix) ==
    /\ Len(prefix) <= Len(text)
    /\ SubSeq(text, 1, Len(prefix)) = prefix

\* the files of a FileList that pass file.type.startsWith('image/'), in order
ImageFilesOf(files) ==
    SelectSeq(files, LAMBDA f : startsWith(FileCatalogue[f].type, imagePrefix))

\* the ImageFile built for file f; the i-th asset of a run gets id and url i
NewImageFile(f, i) ==
    [id           |-> i,
     file         |-> f,
     url          |-> i,
     name         |-> FileCatalogue[f].name,
     size         |-> FileCatalogue[f].size,
     type         |-> FileCatalogue[f].type,
     dateModified |-> FileCatalogue[f].lastModified]

\* imageFiles after the forEach over the FileList
NewImageFiles(files, first) ==
    [i \in DOMAIN ImageFilesOf(files) |-> NewImageFile(ImageFilesOf(files)[i], first + i - 1)]

(***************************************************************************)
(* loadImageDimensions                                                     *)
(***************************************************************************)
fallbackWidth == 300

fallbackHeight == 200

\* 1.5
fallbackAspectRatio == <<3, 2>>

SquareFallback(imageFile) ==
    [width |-> fallbackWidth, height |-> fallbackWidth, aspectRatio |-> <<1, 1>>] @@ imageFile

\* img.onload: resolve({ ...imageFile, width, height, aspectRatio })
OnLoad(imageFile, natural) ==
    [width |-> natural[1], height |-> natural[2], aspectRatio |-> natural] @@ imageFile

\* img.onerror: resolve({ ...imageFile, width: 300, height: 200, aspectRatio: 1.5 })
OnError(imageFile) ==
    [width |-> fallbackWidth, height |-> fallbackHeight,
     aspectRatio |-> fallbackAspectRatio] @@ imageFile

\* the values the promise of one asset can resolve with: a file that does not
\* decode fires onerror; once the object URL is revoked the fetch of a decode
\* still in flight may or may not succeed
DecodeOutcomes(imageFile, revokedUrls) ==
    LET natural == FileCatalogue[imageFile.file].natural
    IN  IF natural = <<>> THEN {OnError(imageFile)}
        ELSE IF imageFile.url \in revokedUrls
             THEN {OnLoad(imageFile, natural), OnError(imageFile)}
             ELSE {OnLoad(imageFile, natural)}

\* Promise.all(images.map(loadImageDimensions)): the values by position in images
PromiseAll(batch) ==
    [i \in DOMAIN batch.snapshot |->
        (CHOOSE r \in {batch.results[j] : j \in DOMAIN batch.results} : r.pos = i).value]

InCompletionOrder(batch) ==
    [i \in DOMAIN batch.results |-> batch.results[i].value]

\* what the awaited Promise.all hands to setImagesWithDimensions
BatchValue(batch) == PromiseAll(batch)

\* the positions of a batch whose promise is still pending
Pending(batch) ==
    DOMAIN batch.snapshot \ {batch.results[j].pos : j \in DOMAIN batch.results}

(***************************************************************************)
(* The memos filteredImages and sortedImages                               *)
(***************************************************************************)
\* character codes of "A" .. "Z" map to those of "a" .. "z"
toLowerCase(text) ==
    [i \in DOMAIN text |-> IF text[i] \in 65 .. 90 THEN text[i] + 32 ELSE text[i]]

\* the first position at which two sequences differ, 0 if one is a prefix of
\* the other
FirstDifference(s, t) ==
    LET common == 1 .. Min2(Len(s), Len(t))
        diffs  == {i \in common : s[i] # t[i]}
    IN  IF diffs = {} THEN 0 ELSE SetMin(diffs)

\* code-point order
CompareCodes(s, t) ==
    LET d == FirstDifference(s, t)
    IN  IF d = 0 THEN Len(s) - Len(t) ELSE s[d] - t[d]

\* a.localeCompare(b) for text of letters and "/": letters compare without
\* regard to case first; texts equal up to case put the lower-case letter first
localeCompare(a, b) ==
    LET primary == CompareCodes(toLowerCase(a), toLowerCase(b))
    IN  IF primary # 0 THEN primary ELSE CompareCodes(b, a)

\* the comparison of the sort callback before the order is applied
Comparison(a, b, criteria) ==
    CASE criteria = "name" -> localeCompare(a.name, b.name)
      [] criteria = "date" -> a.dateModified - b.dateModified
      [] criteria = "size" -> a.size - b.size
      [] criteria = "type" -> localeCompare(a.type, b.type)

AscendingOnly(a, b, criteria, order) == Comparison(a, b, criteria)

\* sortOrder === 'asc' ? comparison : -comparison
CompareImages(a, b, criteria, order) ==
    IF order = "asc" THEN Comparison(a, b, criteria) ELSE 0 - Comparison(a, b, criteria)

\* x put behind the last element of the sorted sequence that is not greater
InsertSorted(sorted, x, criteria, order) ==
    LET greater == {i \in DOMAIN sorted : CompareImages(sorted[i], x, criteria, order) > 0}
        at      == IF greater = {} THEN Len(sorted) + 1 ELSE SetMin(greater)
    IN  SubSeq(sorted, 1, at - 1) \o <<x>> \o SubSeq(sorted, at, Len(sorted))

RECURSIVE SortFrom(_, _, _, _)
SortFrom(list, sorted, criteria, order) ==
    IF Len(sorted) = Len(list) THEN sorted
    ELSE SortFrom(list, InsertSorted(sorted, list[Len(sorted) + 1], criteria, order),
                  criteria, order)

\* Array.prototype.sort: stable
StableSort(list, criteria, order) == SortFrom(list, <<>>, criteria, order)

\* white space as String.prototype.trim sees it: here tab and space
whiteSpace == {9, 32}

\* text.trim()
trim(text) ==
    LET kept == {i \in DOMAIN text : text[i] \notin whiteSpace}
    IN  IF kept = {} THEN <<>> ELSE SubSeq(text, SetMin(kept), SetMax(kept))

\* text.includes(part)
includes(text, part) ==
    \E i \in 0 .. Len(text) - Len(part) : SubSeq(text, i + 1, i + Len(part)) = part

\* !searchTerm.trim()
IsBlank(term) == trim(term) = <<>>

\* the memo filteredImages: the test is made on the trimmed term, the filter
\* uses the term as typed
filteredImagesMemo(withDimensions, term) ==
    IF IsBlank(term) THEN withDimensions
    ELSE SelectSeq(withDimensions,
                   LAMBDA image : includes(toLowerCase(image.name), toLowerCase(term)))

\* the memo sortedImages
sortedImagesMemo(filtered, criteria, order, shuffled) ==
    IF shuffled THEN filtered ELSE StableSort(filtered, criteria, order)

SortCriteria == {"name", "date", "size", "type"}

(***************************************************************************)
(* shuffleImages                                                           *)
(***************************************************************************)
\* [shuffled[i], shuffled[j]] = [shuffled[j], shuffled[i]], positions from 1
Swap(list, i, j) == [list EXCEPT ![i] = list[j], ![j] = list[i]]

\* the loop from position i down to 2; js[i] is the random position drawn for i
RECURSIVE FisherYates(_, _, _)
FisherYates(shuffled, i, js) ==
    IF i < 2 THEN shuffled
    ELSE FisherYates(Swap(shuffled, i, js[i]), i - 1, js)

\* Math.floor(Math.random() * (i + 1)) for every i of the loop
RandomDraws(n) == {js \in [2 .. n -> 1 .. n] : \A i \in 2 .. n : js[i] <= i}

(***************************************************************************)
(* calculateWaterfallLayout as one call                                    *)
(***************************************************************************)
RECURSIVE LayoutFrom(_, _, _, _)
LayoutFrom(imgs, done, heights, w) ==
    IF Len(done) = Len(imgs) THEN [positioned |-> done, columnHeights |-> heights]
    ELSE LET p == PositionedImage(NextImage(imgs, done), heights, w)
         IN  LayoutFrom(imgs, Append(done, p),
                        AddToColumn(heights, p.column, p.calculatedHeight), w)

\* the pass with the accumulators it ends with
LayoutPass(imgs, k, w, fullscreen) ==
    LayoutFrom(imgs, <<>>, PassStartHeights(<<>>, k), imageWidth(w, fullscreen, k))

calculateWaterfallLayout(imgs, k, w, fullscreen) ==
    LayoutPass(imgs, k, w, fullscreen).positioned

(***************************************************************************)
(* The gallery as a state machine                                          *)
(***************************************************************************)
defaultColumnCount == 5

initialInnerWidth == 1500

\* the component after mount, in a window 1500 wide: every useState at its initial
\* value, the effects of the first render done
GalleryInit ==
    /\ innerWidth = initialInnerWidth
    /\ isFullscreen = FALSE
    /\ columnCount = defaultColumnCount
    /\ sortedImages = <<>>
    /\ columnHeights = NewColumnHeights(defaultColumnCount)
    /\ positioned = <<>>
    /\ positionedImages = <<>>
    /\ containerHeight = 0
    /\ containerWidth = 0
    /\ pc = "done"
    /\ isDarkMode = FALSE
    /\ passes = 1
    /\ lastLayout = [positionedImages |-> <<>>, containerHeight |-> 0, containerWidth |-> 0]
    /\ images = <<>>
    /\ imagesWithDimensions = <<>>
    /\ sortCriteria = "name"
    /\ sortOrder = "asc"
    /\ isShuffled = FALSE
    /\ batches = <<>>
    /\ hotkeyImages = <<>>
    /\ nextId = 1
    /\ revoked = {}
    /\ started = [id \in 1 .. MaxAssets |-> 0]
    /\ batchesStarted = 0
    /\ searchTerm = <<>>
    /\ isPreviewOpen = FALSE
    /\ previewIndex = -1
    /\ isDragOver = FALSE
    /\ dragCounter = 0
    /\ dragDepth = 0

\* the layout effect runs after a render in which sortedImages is a new array
\* (imagesWithDimensions was set, the filter made a new array for a changed
\* search term, or a dependency of the sortedImages memo has a new value),
\* columnCount has a new value or calculateWaterfallLayout is a new function
\* (isFullscreen has a new value); an effect still pending from the render
\* before (pc = "effect") is flushed before this render
LayoutDepsChanged(stored) ==
    \/ stored
    \/ pc = "effect"
    \/ searchTerm' # searchTerm /\ ~(IsBlank(searchTerm) /\ IsBlank(searchTerm'))
    \/ sortCriteria' # sortCriteria
    \/ sortOrder' # sortOrder
    \/ isShuffled' # isShuffled
    \/ columnCount' # columnCount
    \/ isFullscreen' # isFullscreen

\* the render after a handler's state updates, with the layout effect and the
\* render that setPositionedImages causes; stored: setImagesWithDimensions was called
Rerender(stored) ==
    /\ sortedImages' = sortedImagesMemo(filteredImagesMemo(imagesWithDimensions', searchTerm'),
                                        sortCriteria', sortOrder', isShuffled')
    /\ IF LayoutDepsChanged(stored)
       THEN LET pass == LayoutPass(sortedImages', columnCount', innerWidth', isFullscreen')
            IN  /\ positioned' = pass.positioned
                /\ columnHeights' = pass.columnHeights
                /\ positionedImages' = pass.positioned
       ELSE UNCHANGED <<positioned, columnHeights, positionedImages>>
    /\ containerHeight' = containerHeightMemo(positionedImages', columnCount')
    /\ containerWidth' = containerWidthMemo(positionedImages', columnCount')
    /\ pc' = "done"
    /\ UNCHANGED <<passes, lastLayout>>

NeverRecaptured(current, captured, depsChanged) == captured

\* the images that handleReset sees when called from the keydown listener: the
\* listener is replaced only when a dependency of the hotkeys effect changed
HotkeyCapture(current, captured, depsChanged) ==
    IF depsChanged THEN current ELSE captured

OnlyUnresolved(count, list) ==
    [id \in DOMAIN count |->
        IF count[id] = 0 /\ \E i \in DOMAIN list : list[i].id = id THEN 1 ELSE count[id]]

\* the loadImageDimensions calls counted per asset id
StartedWith(count, list) ==
    [id \in DOMAIN count |->
        count[id] + Cardinality({i \in DOMAIN list : list[i].id = id})]

\* setImages(list) and the effects its render runs: the dimension effect and
\* the hotkeys effect
SetImages(list) ==
    /\ images' = list
    /\ hotkeyImages' = HotkeyCapture(list, hotkeyImages,
                                     Len(list) # Len(images) \/ isPreviewOpen' # isPreviewOpen)
    /\ IF Len(list) = 0
       THEN /\ imagesWithDimensions' = <<>>
            /\ UNCHANGED <<batches, started, batchesStarted>>
       ELSE /\ batchesStarted < MaxBatches
            /\ batches' = Append(batches, [snapshot |-> list, results |-> <<>>])
            /\ started' = StartedWith(started, list)
            /\ batchesStarted' = batchesStarted + 1
            /\ UNCHANGED imagesWithDimensions

\* setImages(prev => [...prev, ...imageFiles]); setIsShuffled(false)
AddImages(files) ==
    /\ nextId + Len(ImageFilesOf(files)) - 1 <= MaxAssets
    /\ UNCHANGED <<innerWidth, isFullscreen, columnCount, isDarkMode,
                   sortCriteria, sortOrder, revoked, searchTerm, previewVars>>
    /\ SetImages(images \o NewImageFiles(files, nextId))
    /\ nextId' = nextId + Len(ImageFilesOf(files))
    /\ isShuffled' = FALSE
    /\ Rerender(Len(images') = 0)

\* handleFileSelect: the picker's change event
ImportFiles ==
    /\ \E files \in Selections : AddImages(files)
    /\ UNCHANGED dragVars

\* all variables but those of the drag overlay
varsButDrag == <<innerWidth, isFullscreen, columnCount, sortedImages, columnHeights,
                 positioned, positionedImages, containerHeight, containerWidth, pc,
                 isDarkMode, passes, lastLayout, galleryVars, searchTerm, previewVars>>

\* handleDrop: the overlay is taken down and the counter reset; nothing else is
\* set unless the drop holds an image file
DropFiles ==
    /\ isDragOver' = FALSE
    /\ dragCounter' = 0
    /\ dragDepth' = 0
    /\ \E files \in Selections :
           IF Len(ImageFilesOf(files)) > 0 THEN AddImages(files)
           ELSE UNCHANGED varsButDrag

\* shuffleImages, from the button (disabled while images is empty) or the 's' key
ShuffleImages ==
    /\ Len(images) > 0
    /\ UNCHANGED interactionVars
    /\ \E js \in RandomDraws(Len(images)) :
           SetImages(FisherYates(images, Len(images), js))
    /\ isShuffled' = TRUE
    /\ UNCHANGED <<innerWidth, isFullscreen, columnCount, isDarkMode,
                   sortCriteria, sortOrder, revoked, nextId>>
    /\ Rerender(FALSE)

ResetKeepingSearch(captured) ==
    /\ revoked' = revoked \cup {captured[i].url : i \in DOMAIN captured}
    /\ isPreviewOpen' = FALSE
    /\ previewIndex' = -1
    /\ SetImages(<<>>)
    /\ isShuffled' = FALSE
    /\ sortCriteria' = "name"
    /\ sortOrder' = "asc"
    /\ columnCount' = defaultColumnCount
    /\ UNCHANGED <<innerWidth, isFullscreen, isDarkMode, nextId, searchTerm>>
    /\ UNCHANGED dragVars
    /\ Rerender(TRUE)

\* handleReset with the images of the closure it was created in
HandleReset(captured) ==
    /\ revoked' = revoked \cup {captured[i].url : i \in DOMAIN captured}
    /\ isPreviewOpen' = FALSE
    /\ previewIndex' = -1
    /\ SetImages(<<>>)
    /\ isShuffled' = FALSE
    /\ sortCriteria' = "name"
    /\ sortOrder' = "asc"
    /\ columnCount' = defaultColumnCount
    /\ searchTerm' = <<>>
    /\ UNCHANGED <<innerWidth, isFullscreen, isDarkMode, nextId>>
    /\ UNCHANGED dragVars
    /\ Rerender(TRUE)

\* the Reset button, disabled while images is empty
ResetButton ==
    /\ Len(images) > 0
    /\ HandleReset(images)

\* the 'r' key; handleKeyPress returns at once while the preview is open
ResetHotkey ==
    /\ ~isPreviewOpen
    /\ HandleReset(hotkeyImages)

\* handleSortChange
HandleSortChange ==
    /\ \E value \in SortCriteria : sortCriteria' = value
    /\ isShuffled' = FALSE
    /\ UNCHANGED <<innerWidth, isFullscreen, columnCount, isDarkMode, sortOrder,
                   images, imagesWithDimensions, batches, hotkeyImages, nextId,
                   revoked, started, batchesStarted>>
    /\ UNCHANGED interactionVars
    /\ Rerender(FALSE)

\* toggleSortOrder
ToggleSortOrder ==
    /\ sortOrder' = IF sortOrder = "asc" THEN "desc" ELSE "asc"
    /\ isShuffled' = FALSE
    /\ UNCHANGED <<innerWidth, isFullscreen, columnCount, isDarkMode, sortCriteria,
                   images, imagesWithDimensions, batches, hotkeyImages, nextId,
                   revoked, started, batchesStarted>>
    /\ UNCHANGED interactionVars
    /\ Rerender(FALSE)

\* onload or onerror of one Image of a batch: its promise resolves
DecodeComplete ==
    /\ \E b \in DOMAIN batches : \E pos \in Pending(batches[b]) :
       \E value \in DecodeOutcomes(batches[b].snapshot[pos], revoked) :
           batches' = [batches EXCEPT ![b].results = Append(@, [pos |-> pos, value |-> value])]
    /\ UNCHANGED <<innerWidth, isFullscreen, columnCount, sortedImages, columnHeights,
                   positioned, positionedImages, containerHeight, containerWidth, pc,
                   isDarkMode, passes, lastLayout, images, imagesWithDimensions,
                   sortCriteria, sortOrder, isShuffled, hotkeyImages, nextId, revoked,
                   started, batchesStarted>>
    /\ UNCHANGED interactionVars

\* batches without the one at position b
WithoutBatch(list, b) == SubSeq(list, 1, b - 1) \o SubSeq(list, b + 1, Len(list))

\* the await of one loadDimensions call returns: setImagesWithDimensions(imagesWithDims)
BatchResolve ==
    /\ \E b \in DOMAIN batches :
           /\ Pending(batches[b]) = {}
           /\ imagesWithDimensions' = BatchValue(batches[b])
           /\ batches' = WithoutBatch(batches, b)
    /\ UNCHANGED <<innerWidth, isFullscreen, columnCount, isDarkMode, images,
                   sortCriteria, sortOrder, isShuffled, hotkeyImages, nextId, revoked,
                   started, batchesStarted>>
    /\ UNCHANGED interactionVars
    /\ Rerender(TRUE)

NextGallery ==
    \/ ImportFiles
    \/ DropFiles
    \/ ShuffleImages
    \/ ResetButton
    \/ ResetHotkey
    \/ HandleSortChange
    \/ ToggleSortOrder
    \/ DecodeComplete
    \/ BatchResolve

GallerySpec == GalleryInit /\ [][NextGallery]_vars

(***************************************************************************)
(* The view controls: column count, fullscreen, and the size of the window *)
(***************************************************************************)
\* the gallery state a view control leaves alone
collectionVars == <<images, imagesWithDimensions, sortCriteria, sortOrder, isShuffled,
                    batches, nextId, revoked, started, batchesStarted>>

\* handleColumnCountChange: the slider hands over a value of its range
HandleColumnCountChange ==
    /\ \E value \in minColumns .. maxColumns : columnCount' = value
    /\ UNCHANGED <<innerWidth, isFullscreen, isDarkMode, hotkeyImages>>
    /\ UNCHANGED collectionVars
    /\ UNCHANGED interactionVars
    /\ Rerender(FALSE)

\* event.key of the keys '0' .. '9', as character codes
DigitKeys == 48 .. 57

\* parseInt(event.key) for a digit key
parseInt(key) == key - 48

ElevenForZero(key) == IF key = 48 THEN maxColumns + 1 ELSE parseInt(key)

\* case '1' .. '9': setColumnCount(parseInt(event.key)); case '0': setColumnCount(10)
KeyColumnCount(key) == IF key = 48 THEN 10 ELSE parseInt(key)

\* a digit key; handleKeyPress returns at once while the preview is open
DigitKey ==
    /\ ~isPreviewOpen
    /\ \E key \in DigitKeys : columnCount' = KeyColumnCount(key)
    /\ UNCHANGED <<innerWidth, isFullscreen, isDarkMode, hotkeyImages>>
    /\ UNCHANGED collectionVars
    /\ UNCHANGED interactionVars
    /\ Rerender(FALSE)

\* toggleFullscreen, from the button or the 'f' key
ToggleFullscreen ==
    /\ isFullscreen' = ~isFullscreen
    /\ hotkeyImages' = HotkeyCapture(images, hotkeyImages, TRUE)
    /\ UNCHANGED <<innerWidth, columnCount, isDarkMode>>
    /\ UNCHANGED collectionVars
    /\ UNCHANGED interactionVars
    /\ Rerender(FALSE)

\* case 'escape'
EscapeKey ==
    /\ ~isPreviewOpen
    /\ isFullscreen
    /\ isFullscreen' = FALSE
    /\ hotkeyImages' = HotkeyCapture(images, hotkeyImages, TRUE)
    /\ UNCHANGED <<innerWidth, columnCount, isDarkMode>>
    /\ UNCHANGED collectionVars
    /\ UNCHANGED interactionVars
    /\ Rerender(FALSE)

\* window.innerWidth after a resize: a narrow window and the initial one
ResizedWidths == {664, initialInnerWidth}

\* the user resizes the window: the component listens to no resize event, no
\* state is set and nothing renders
Resize ==
    /\ \E w \in ResizedWidths : innerWidth' = w
    /\ UNCHANGED <<isFullscreen, columnCount, sortedImages, columnHeights, positioned,
                   positionedImages, containerHeight, containerWidth, pc, otherVars>>

NextView ==
    \/ ImportFiles
    \/ DecodeComplete
    \/ BatchResolve
    \/ ResetHotkey
    \/ HandleColumnCountChange
    \/ DigitKey
    \/ ToggleFullscreen
    \/ EscapeKey
    \/ Resize

ViewSpec == GalleryInit /\ [][NextView]_vars

(***************************************************************************)
(* The search box over the gallery: typing a term, clearing it, and the    *)
(* sort controls, with imports and shuffles supplying the lists.           *)
(***************************************************************************)
\* what is typed into the search box: "", " ", "a", "A", "a " and "b"
SearchTerms == {<<>>, <<32>>, <<97>>, <<65>>, <<97, 32>>, <<98>>}

\* onChange of the search input: setSearchTerm(e.target.value)
SetSearchTerm ==
    /\ \E value \in SearchTerms : searchTerm' = value
    /\ UNCHANGED <<innerWidth, isFullscreen, columnCount, isDarkMode, hotkeyImages>>
    /\ UNCHANGED collectionVars
    /\ UNCHANGED <<previewVars, dragVars>>
    /\ Rerender(FALSE)

\* the Clear button, shown while a term is set: setSearchTerm('')
ClearSearch ==
    /\ searchTerm # <<>>
    /\ searchTerm' = <<>>
    /\ UNCHANGED <<innerWidth, isFullscreen, columnCount, isDarkMode, hotkeyImages>>
    /\ UNCHANGED collectionVars
    /\ UNCHANGED <<previewVars, dragVars>>
    /\ Rerender(FALSE)

NextSearch ==
    \/ ImportFiles
    \/ ShuffleImages
    \/ HandleSortChange
    \/ ToggleSortOrder
    \/ DecodeComplete
    \/ BatchResolve
    \/ SetSearchTerm
    \/ ClearSearch

SearchSpec == GalleryInit /\ [][NextSearch]_vars

(***************************************************************************)
(* Dragging files over the page: dragenter and dragleave of the root       *)
(* element and its descendants, and the drop.  dragDepth counts the        *)
(* dragenter events since the last drop that no dragleave has matched.     *)
(***************************************************************************)
\* the deepest nesting of elements a drag is followed into
MaxDragDepth == 2

OverlayKept(counter, over) == over

\* if (dragCounterRef.current === 0) setIsDragOver(false)
OverlayAfterLeave(counter, over) == IF counter = 0 THEN FALSE ELSE over

\* handleDragEnter; hasItems: event.dataTransfer.items holds an item
DragEnter ==
    /\ dragDepth < MaxDragDepth
    /\ dragDepth' = dragDepth + 1
    /\ dragCounter' = dragCounter + 1
    /\ \E hasItems \in BOOLEAN : isDragOver' = IF hasItems THEN TRUE ELSE isDragOver
    /\ UNCHANGED varsButDrag

\* handleDragLeave, for a dragenter not yet matched
DragLeave ==
    /\ dragDepth > 0
    /\ dragDepth' = dragDepth - 1
    /\ dragCounter' = dragCounter - 1
    /\ isDragOver' = OverlayAfterLeave(dragCounter', isDragOver)
    /\ UNCHANGED varsButDrag

\* handleDrop of a drag that has entered the page
Drop ==
    /\ dragDepth > 0
    /\ DropFiles

NextDrag ==
    \/ DragEnter
    \/ DragLeave
    \/ Drop
    \/ DecodeComplete
    \/ BatchResolve

DragSpec == GalleryInit /\ [][NextDrag]_vars

(***************************************************************************)
(* The preview over the gallery.  The render that follows                  *)
(* setImagesWithDimensions is caused by a promise, not by an event: it is  *)
(* committed with the new sortedImages while positionedImages is still the *)
(* layout of the list before, and the layout effect runs afterwards; a     *)
(* click on a tile can come in between.                                    *)
(***************************************************************************)
\* ImagePreview renders its overlay: isOpen and images[currentIndex] exists
PreviewShown == isPreviewOpen /\ previewIndex + 1 \in DOMAIN sortedImages

\* a click on the tile at position index of positionedImages.map: openPreview(index);
\* the tiles lie under the overlay while the preview is shown
OpenPreview ==
    /\ ~PreviewShown
    /\ \E index \in 0 .. Len(positionedImages) - 1 : previewIndex' = index
    /\ isPreviewOpen' = TRUE
    /\ hotkeyImages' = HotkeyCapture(images, hotkeyImages, ~isPreviewOpen)
    /\ UNCHANGED <<innerWidth, isFullscreen, columnCount, isDarkMode, searchTerm>>
    /\ UNCHANGED collectionVars
    /\ UNCHANGED dragVars
    /\ Rerender(FALSE)

\* closePreview, from the Escape key or the close button of ImagePreview
ClosePreview ==
    /\ isPreviewOpen
    /\ isPreviewOpen' = FALSE
    /\ previewIndex' = -1
    /\ hotkeyImages' = HotkeyCapture(images, hotkeyImages, TRUE)
    /\ UNCHANGED <<innerWidth, isFullscreen, columnCount, isDarkMode, searchTerm>>
    /\ UNCHANGED collectionVars
    /\ UNCHANGED dragVars
    /\ Rerender(FALSE)

\* goToNextImage, from the ArrowRight key or the Next button
GoToNextImage ==
    /\ isPreviewOpen
    /\ previewIndex' = IF previewIndex < Len(sortedImages) - 1
                       THEN previewIndex + 1 ELSE previewIndex
    /\ UNCHANGED <<innerWidth, isFullscreen, columnCount, isDarkMode, searchTerm,
                   isPreviewOpen, hotkeyImages>>
    /\ UNCHANGED collectionVars
    /\ UNCHANGED dragVars
    /\ Rerender(FALSE)

\* goToPreviousImage, from the ArrowLeft key or the Previous button
GoToPreviousImage ==
    /\ isPreviewOpen
    /\ previewIndex' = IF previewIndex > 0 THEN previewIndex - 1 ELSE previewIndex
    /\ UNCHANGED <<innerWidth, isFullscreen, columnCount, isDarkMode, searchTerm,
                   isPreviewOpen, hotkeyImages>>
    /\ UNCHANGED collectionVars
    /\ UNCHANGED dragVars
    /\ Rerender(FALSE)

\* the await of one loadDimensions call returns and the render it causes is
\* committed: sortedImages is the new list, the layout effect is still to run
\* (an effect pending from the render before runs first)
BatchStore ==
    /\ \E b \in DOMAIN batches :
           /\ Pending(batches[b]) = {}
           /\ imagesWithDimensions' = BatchValue(batches[b])
           /\ batches' = WithoutBatch(batches, b)
    /\ sortedImages' = sortedImagesMemo(filteredImagesMemo(imagesWithDimensions', searchTerm),
                                        sortCriteria, sortOrder, isShuffled)
    /\ IF pc = "effect"
       THEN LET pass == LayoutPass(sortedImages, columnCount, innerWidth, isFullscreen)
            IN  /\ positioned' = pass.positioned
                /\ columnHeights' = pass.columnHeights
                /\ positionedImages' = pass.positioned
       ELSE UNCHANGED <<positioned, columnHeights, positionedImages>>
    /\ containerHeight' = containerHeightMemo(positionedImages', columnCount)
    /\ containerWidth' = containerWidthMemo(positionedImages', columnCount)
    /\ pc' = "effect"
    /\ UNCHANGED <<innerWidth, isFullscreen, columnCount, isDarkMode, images,
                   sortCriteria, sortOrder, isShuffled, hotkeyImages, nextId, revoked,
                   started, batchesStarted, passes, lastLayout>>
    /\ UNCHANGED interactionVars

\* the layout effect of the committed render: setPositionedImages(layout)
LayoutEffect ==
    /\ pc = "effect"
    /\ LET pass == LayoutPass(sortedImages, columnCount, innerWidth, isFullscreen)
       IN  /\ positioned' = pass.positioned
           /\ columnHeights' = pass.columnHeights
           /\ positionedImages' = pass.positioned
    /\ containerHeight' = containerHeightMemo(positionedImages', columnCount)
    /\ containerWidth' = containerWidthMemo(positionedImages', columnCount)
    /\ pc' = "done"
    /\ UNCHANGED <<innerWidth, isFullscreen, columnCount, sortedImages, isDarkMode,
                   passes, lastLayout>>
    /\ UNCHANGED galleryVars
    /\ UNCHANGED interactionVars

NextPreview ==
    \/ ImportFiles
    \/ ResetButton
    \/ DecodeComplete
    \/ BatchStore
    \/ LayoutEffect
    \/ OpenPreview
    \/ ClosePreview
    \/ GoToNextImage
    \/ GoToPreviousImage

PreviewSpec == GalleryInit /\ [][NextPreview]_vars

(***************************************************************************)
(* Resets of a gallery whose settings were changed before the first        *)
(* import: the initial states are the empty gallery after the search box,  *)
(* the sort controls, the column slider, the fullscreen and dark mode      *)
(* switches were used and a drag entered the page.                         *)
(***************************************************************************)
DefaultSettings ==
    [searchTerm |-> <<>>, sortCriteria |-> "name", sortOrder |-> "asc",
     columnCount |-> defaultColumnCount, isFullscreen |-> FALSE,
     isDarkMode |-> FALSE, isDragOver |-> FALSE]

\* one kind of setting changed at a time, and all of them changed at once
SettingsBeforeImport ==
    {[DefaultSettings EXCEPT !.searchTerm = term] : term \in SearchTerms}
      \cup {[DefaultSettings EXCEPT !.sortCriteria = criteria, !.sortOrder = order] :
               criteria \in SortCriteria, order \in {"asc", "desc"}}
      \cup {[DefaultSettings EXCEPT !.columnCount = count] : count \in minColumns .. maxColumns}
      \cup {[DefaultSettings EXCEPT !.isFullscreen = fullscreen, !.isDarkMode = dark,
                                    !.isDragOver = over] :
               fullscreen \in BOOLEAN, dark \in BOOLEAN, over \in BOOLEAN}
      \cup {[searchTerm |-> <<98>>, sortCriteria |-> "size", sortOrder |-> "desc",
              columnCount |-> 3, isFullscreen |-> TRUE, isDarkMode |-> TRUE,
              isDragOver |-> TRUE]}

ResetInit ==
    \E settings \in SettingsBeforeImport :
        /\ innerWidth = initialInnerWidth
        /\ isFullscreen = settings.isFullscreen
        /\ columnCount = settings.columnCount
        /\ sortedImages = <<>>
        /\ columnHeights = NewColumnHeights(settings.columnCount)
        /\ positioned = <<>>
        /\ positionedImages = <<>>
        /\ containerHeight = 0
        /\ containerWidth = 0
        /\ pc = "done"
        /\ isDarkMode = settings.isDarkMode
        /\ passes = 1
        /\ lastLayout = [positionedImages |-> <<>>, containerHeight |-> 0, containerWidth |-> 0]
        /\ images = <<>>
        /\ imagesWithDimensions = <<>>
        /\ sortCriteria = settings.sortCriteria
        /\ sortOrder = settings.sortOrder
        /\ isShuffled = FALSE
        /\ batches = <<>>
        /\ hotkeyImages = <<>>
        /\ nextId = 1
        /\ revoked = {}
        /\ started = [id \in 1 .. MaxAssets |-> 0]
        /\ batchesStarted = 0
        /\ searchTerm = settings.searchTerm
        /\ isPreviewOpen = FALSE
        /\ previewIndex = -1
        /\ isDragOver = settings.isDragOver
        /\ dragCounter = IF settings.isDragOver THEN 1 ELSE 0
        /\ dragDepth = IF settings.isDragOver THEN 1 ELSE 0

NextReset ==
    \/ ImportFiles
    \/ ShuffleImages
    \/ DecodeComplete
    \/ BatchResolve
    \/ OpenPreview
    \/ ResetButton
    \/ ResetHotkey

ResetSpec == ResetInit /\ [][NextReset]_vars

(***************************************************************************)
(* Vocabulary of the properties                                            *)
(***************************************************************************)
Columns == 0 .. columnCount - 1

PassComplete == pc # "layout"

\* a step of the pass that places one more image
Placement == Len(positioned') = Len(positioned) + 1

\* the image placed by the step
Placed == positioned'[Len(positioned')]

\* the container width the layout is computed for, from the viewport
ViewportContainerWidth ==
    IF isFullscreen \/ innerWidth - 32 < 1280 THEN innerWidth - 32 ELSE 1280

\* the images of ps that lie in column c, as positions of ps
InColumn(ps, c) == {i \in DOMAIN ps : ps[i].column = c}

\* b directly follows a in their column
Consecutive(ps, a, b) ==
    /\ a < b
    /\ ps[a].column = ps[b].column
    /\ \A m \in DOMAIN ps : (a < m /\ m < b) => ps[m].column # ps[a].column

AllHeightsPositive(ps) == \A i \in DOMAIN ps : ps[i].calculatedHeight > 0

\* the inputs of the worked example: 2 columns, container width 632, ratios 2, 1, 1
WorkedExample ==
    /\ columnCount = 2
    /\ innerWidth = 664
    /\ sortedImages = AsImages(<<(<<2, 1>>), (<<1, 1>>), (<<1, 1>>)>>)

(***************************************************************************)
(* C1: every placement chooses a column whose accumulated height is the    *)
(* minimum over all columns at that moment, and among the columns that tie *)
(* for the minimum the one with the lowest index; so the first image laid  *)
(* out into 3 empty columns goes to column 0.                              *)
(***************************************************************************)
C1_ShortestColumnLowestIndex ==
    [][Placement =>
        /\ Placed.column \in Columns
        /\ \A d \in Columns :
              /\ columnHeights[Placed.column] <= columnHeights[d]
              /\ d < Placed.column => columnHeights[d] > columnHeights[Placed.column]
        /\ (columnCount = 3 /\ positioned = <<>>) => Placed.column = 0]_vars

\* the second image went to column 1 while columns 1 and 2 were both empty
C1_Witness ==
    /\ columnCount = 3
    /\ Len(positioned) = 2
    /\ positioned[1].column = 0
    /\ positioned[2].column = 1
    /\ columnHeights[2] = 0

(***************************************************************************)
(* C2: the finished layout of a non-empty sequence has the length of the   *)
(* input and, position by position, the ids of the input, and every column *)
(* index is in 0 .. columnCount - 1.                                       *)
(***************************************************************************)
C2_SameOrderColumnsInRange ==
    (PassComplete /\ Len(sortedImages) > 0) =>
        /\ Len(positioned) = Len(sortedImages)
        /\ \A i \in DOMAIN positioned :
              /\ positioned[i].id = sortedImages[i].id
              /\ positioned[i].column \in Columns
        /\ pc = "done" => positionedImages = positioned

C2_Witness ==
    /\ pc = "done"
    /\ Len(positionedImages) = MaxImages
    /\ columnCount = 2
    /\ \E i \in DOMAIN positionedImages : positionedImages[i].column = 1

(***************************************************************************)
(* C3: in a column, each image starts exactly 16 below the end of the one  *)
(* before it: b.top = a.top + a.calculatedHeight + 16 for consecutive a, b *)
(* (and so, with non-negative heights, a later image of a column never     *)
(* starts above the end of an earlier one).                                *)
(***************************************************************************)
C3_NoGapNoOverlap ==
    \A a, b \in DOMAIN positioned :
        /\ Consecutive(positioned, a, b) =>
              positioned[b].top = positioned[a].top + positioned[a].calculatedHeight + 16
        /\ (/\ a < b
            /\ positioned[a].column = positioned[b].column
            /\ \A i \in DOMAIN positioned : positioned[i].calculatedHeight >= 0) =>
              positioned[b].top >= positioned[a].top + positioned[a].calculatedHeight + 16

C3_Witness ==
    /\ Len(positioned) = 3
    /\ columnCount = 2
    /\ Consecutive(positioned, 1, 3)
    /\ positioned[1].calculatedHeight > 0
    /\ positioned[3].top = positioned[1].calculatedHeight + 16

(***************************************************************************)
(* C4: the accumulators start at 0; a placement gives the image the        *)
(* accumulated height of its column as top, raises that column's           *)
(* accumulator by calculatedHeight + 16 and leaves every other one alone.  *)
(***************************************************************************)
C4_TopAndAccumulator ==
    /\ \A c \in Columns : columnHeights[c] = 0
    /\ [][Placement =>
            /\ Placed.top = columnHeights[Placed.column]
            /\ columnHeights'[Placed.column] =
                   columnHeights[Placed.column] + Placed.calculatedHeight + 16
            /\ \A d \in Columns \ {Placed.column} :
                   columnHeights'[d] = columnHeights[d]]_vars

C4_Witness ==
    /\ Len(positioned) = 3
    /\ columnCount = 2
    /\ positioned[3].top > 0
    /\ columnHeights[0] > 0
    /\ columnHeights[1] > 0

(***************************************************************************)
(* C5: all images of a pass get one calculatedWidth, the floor of          *)
(* (containerWidth - 16 * (columnCount - 1)) / columnCount, containerWidth *)
(* being min(innerWidth - 32, 1280), or innerWidth - 32 in fullscreen.     *)
(***************************************************************************)
C5_UniformFlooredWidth ==
    \A i \in DOMAIN positioned :
        LET w == positioned[i].calculatedWidth
            a == ViewportContainerWidth - 16 * (columnCount - 1)
        IN /\ w = positioned[1].calculatedWidth
           /\ columnCount * w <= a
           /\ a < columnCount * w + columnCount

\* the cap applies, and the quotient is not an integer
C5_Witness ==
    /\ Len(positioned) = 2
    /\ innerWidth = 1500
    /\ ~isFullscreen
    /\ columnCount = 3
    /\ positioned[2].calculatedWidth = 416

(***************************************************************************)
(* C6: calculatedHeight is calculatedWidth / aspectRatio rounded to the    *)
(* nearest integer, a half rounding up, for every ratio (nothing clamps    *)
(* it): with natural size w x h and x = calculatedWidth * h / w,           *)
(* x - 1/2 < calculatedHeight <= x + 1/2.                                  *)
(***************************************************************************)
C6_RoundedHeight ==
    \A i \in DOMAIN positioned :
        LET p == positioned[i]
            n == p.calculatedWidth * p.height
        IN /\ 2 * n - p.width < 2 * p.width * p.calculatedHeight
           /\ 2 * p.width * p.calculatedHeight <= 2 * n + p.width

\* a half rounded up (113 / 2 = 56.5), and a ratio of 1/4 left as it is
C6_Witness ==
    /\ Len(positioned) = 2
    /\ positioned[1].calculatedWidth = 113
    /\ positioned[1].width = 2 /\ positioned[1].height = 1
    /\ positioned[1].calculatedHeight = 57
    /\ positioned[2].width = 1 /\ positioned[2].height = 4
    /\ positioned[2].calculatedHeight = 452

(***************************************************************************)
(* C7 as stated: the content height of a non-empty layout is the maximum   *)
(* of the pass's column accumulators, trailing gap included (494 in the    *)
(* worked example).                                                        *)
(***************************************************************************)
C7_HeightIsMaxAccumulator ==
    (pc = "done" /\ Len(positionedImages) > 0) =>
        containerHeight = SetMax({columnHeights[c] : c \in Columns})

(***************************************************************************)
(* C7 amended: in the render that follows a layout pass, the content       *)
(* height of a non-empty layout is the lowest bottom edge                  *)
(* top + calculatedHeight of its images (and at least 0): the              *)
(* gap after a column's last image is not part of it.  With non-negative   *)
(* calculated heights it is the maximum accumulator minus 16; in the       *)
(* worked example 478, not 494.                                            *)
(***************************************************************************)
C7_HeightIsLowestBottomEdge ==
    (pc = "done" /\ Len(positionedImages) > 0) =>
        LET bottoms == {positionedImages[i].top + positionedImages[i].calculatedHeight :
                           i \in DOMAIN positionedImages}
        IN /\ containerHeight = SetMax(bottoms \cup {0})
           /\ (\A i \in DOMAIN positionedImages :
                   positionedImages[i].calculatedHeight >= 0) =>
                 containerHeight = SetMax({columnHeights[c] : c \in Columns}) - 16
           /\ WorkedExample => containerHeight = 478

C7_Witness ==
    /\ pc = "done"
    /\ WorkedExample
    /\ containerHeight = 478
    /\ SetMax({columnHeights[c] : c \in Columns}) = 494

(***************************************************************************)
(* C8: the worked example.  2 columns and container width 632 give image   *)
(* width 308; ratios 2, 1, 1 are placed at (column, top, height)           *)
(* (0, 0, 154), (1, 0, 308), (0, 170, 308), and the accumulators end at    *)
(* 494 and 324.                                                            *)
(***************************************************************************)
C8_WorkedExample ==
    (WorkedExample /\ PassComplete) =>
        /\ Len(positioned) = 3
        /\ \A i \in 1 .. 3 : positioned[i].calculatedWidth = 308
        /\ <<positioned[1].column, positioned[1].top, positioned[1].calculatedHeight>>
              = <<0, 0, 154>>
        /\ <<positioned[2].column, positioned[2].top, positioned[2].calculatedHeight>>
              = <<1, 0, 308>>
        /\ <<positioned[3].column, positioned[3].top, positioned[3].calculatedHeight>>
              = <<0, 170, 308>>
        /\ columnHeights = (0 :> 494) @@ (1 :> 324)

C8_Witness ==
    /\ WorkedExample
    /\ PassComplete
    /\ ~isFullscreen
    /\ positioned[3].top = 170

(***************************************************************************)
(* C9: the content width of a non-empty layout is                          *)
(* w * columnCount + 16 * (columnCount - 1), w being the image width the   *)
(* layout pass computed, also when w is 0.                                 *)
(***************************************************************************)
C9_WidthFromLayoutWidth ==
    (pc = "done" /\ Len(positionedImages) > 0) =>
        containerWidth =
            positionedImages[1].calculatedWidth * columnCount + 16 * (columnCount - 1)

(***************************************************************************)
(* C10: after a pass whose calculated heights are all positive, the        *)
(* highest and the lowest column accumulator differ by at most the largest *)
(* calculatedHeight + 16 of an image placed in the pass.                   *)
(***************************************************************************)
C10_ColumnBalance ==
    (PassComplete /\ Len(positioned) > 0 /\ AllHeightsPositive(positioned)) =>
        SetMax({columnHeights[c] : c \in Columns})
            - SetMin({columnHeights[c] : c \in Columns})
          <= SetMax({positioned[i].calculatedHeight + 16 : i \in DOMAIN positioned})

\* the bound is attained by unequal columns: three images in two columns
C10_Witness ==
    /\ PassComplete
    /\ columnCount = 2
    /\ Len(positioned) = 3
    /\ AllHeightsPositive(positioned)
    /\ columnHeights[0] - columnHeights[1] =
           SetMax({positioned[i].calculatedHeight + 16 : i \in DOMAIN positioned})

(***************************************************************************)
(* C12: laying out an empty sequence gives an empty positioned list,       *)
(* content width 0 and content height 0, for every column count and        *)
(* viewport width; the pass completes like any other.                      *)
(***************************************************************************)
C12_EmptyLayout ==
    (Len(sortedImages) = 0) =>
        /\ positioned = <<>>
        /\ positionedImages = <<>>
        /\ containerWidth = 0
        /\ containerHeight = 0
        /\ pc # "done" => ENABLED Next

C12_Witness ==
    /\ pc = "done"
    /\ Len(sortedImages) = 0
    /\ columnCount = 10
    /\ innerWidth = 33
    /\ isFullscreen

(***************************************************************************)
(* C20: every positioned image has top >= 0, also when the container is    *)
(* narrower than the gaps between the columns.                             *)
(***************************************************************************)
C20_TopsNonNegative ==
    \A i \in DOMAIN positioned : positioned[i].top >= 0

(***************************************************************************)
(* C11: layout is a function of the image sequence, the column count and   *)
(* the container width.  A second pass over the same input ends with the   *)
(* same positioned images (columns, tops, widths, heights) and the same    *)
(* content size; every pass starts from accumulators that are all 0; and a *)
(* dark mode toggle changes none of positionedImages, content width and    *)
(* content height.                                                         *)
(***************************************************************************)
C11_PureLayout ==
    /\ [](pc = "done" /\ passes > 1 =>
            /\ positionedImages = lastLayout.positionedImages
            /\ containerHeight = lastLayout.containerHeight
            /\ containerWidth = lastLayout.containerWidth)
    /\ [][pc' = "layout" /\ pc = "done" =>
            \A c \in DOMAIN columnHeights' : columnHeights'[c] = 0]_vars
    /\ [][isDarkMode' # isDarkMode =>
            UNCHANGED <<positionedImages, containerHeight, containerWidth>>]_vars

\* a second pass has ended, in dark mode, on a layout with two used columns
C11_Witness ==
    /\ pc = "done"
    /\ passes = 2
    /\ isDarkMode
    /\ Len(positionedImages) = 3
    /\ columnCount = 2
    /\ positionedImages[3].top > 0
    /\ lastLayout.positionedImages = positionedImages

(***************************************************************************)
(* Vocabulary of the gallery properties                                    *)
(***************************************************************************)
\* the file of the image does not decode
Undecodable(image) == FileCatalogue[image.file].natural = <<>>

\* the fields of a resolved image that the asset it was resolved for has
AssetOf(image) ==
    [f \in DOMAIN image \ {"width", "height", "aspectRatio"} |-> image[f]]

\* where and how large a positioned image is drawn
Geometry(ps) ==
    [i \in DOMAIN ps |-> [column           |-> ps[i].column,
                          top              |-> ps[i].top,
                          calculatedHeight |-> ps[i].calculatedHeight,
                          calculatedWidth  |-> ps[i].calculatedWidth]]

\* the sequence with every image of an undecodable file replaced by what a
\* decoded image 3 wide and 2 high (aspect ratio 1.5) resolves to
WithDecodedInstead(imgs) ==
    [i \in DOMAIN imgs |->
        IF Undecodable(imgs[i]) THEN OnLoad(AssetOf(imgs[i]), <<3, 2>>) ELSE imgs[i]]

\* all promise values of the batches in flight, with the asset they belong to
ResolvedPromises ==
    UNION {{[asset |-> batches[b].snapshot[batches[b].results[j].pos],
             value |-> batches[b].results[j].value] :
               j \in DOMAIN batches[b].results} : b \in DOMAIN batches}

(***************************************************************************)
(* C13: a decode failure resolves the promise of the asset with width 300, *)
(* height 200 and aspect ratio 1.5 (3/2), the other fields being those of  *)
(* the asset; a batch with an undecodable file still completes: every      *)
(* pending promise has a value to resolve with, and once none is pending   *)
(* the value of the batch has an entry for every asset of its snapshot;    *)
(* and the positioned layout has the geometry (columns, tops, widths,      *)
(* heights, container size) it would have if every undecodable file had    *)
(* decoded to an image of aspect ratio 1.5.                                *)
(***************************************************************************)
C13_FallbackDimensions ==
    /\ \A r \in ResolvedPromises :
           Undecodable(r.asset) =>
               /\ r.value.width = 300
               /\ r.value.height = 200
               /\ 2 * r.value.aspectRatio[1] = 3 * r.value.aspectRatio[2]
               /\ AssetOf(r.value) = r.asset
    /\ \A b \in DOMAIN batches :
           /\ \A pos \in Pending(batches[b]) :
                  DecodeOutcomes(batches[b].snapshot[pos], revoked) # {}
           /\ Pending(batches[b]) = {} =>
                  /\ Len(BatchValue(batches[b])) = Len(batches[b].snapshot)
                  /\ \A i \in DOMAIN batches[b].snapshot :
                         AssetOf(BatchValue(batches[b])[i]) = batches[b].snapshot[i]
    /\ \A i \in DOMAIN imagesWithDimensions :
           Undecodable(imagesWithDimensions[i]) =>
               /\ imagesWithDimensions[i].width = 300
               /\ imagesWithDimensions[i].height = 200
    /\ Geometry(positionedImages)
         = Geometry(calculateWaterfallLayout(WithDecodedInstead(sortedImages),
                                             columnCount, innerWidth, isFullscreen))
    /\ containerHeight
         = containerHeightMemo(calculateWaterfallLayout(WithDecodedInstead(sortedImages),
                                   columnCount, innerWidth, isFullscreen), columnCount)

\* a batch of an undecodable file and a decodable one has been stored and laid out
C13_Witness ==
    /\ Len(positionedImages) = 2
    /\ Undecodable(positionedImages[1])
    /\ positionedImages[1].width = 300
    /\ positionedImages[1].calculatedHeight > 0
    /\ ~Undecodable(positionedImages[2])
    /\ positionedImages[2].width = 3
    /\ positionedImages[2].calculatedHeight = positionedImages[1].calculatedHeight
    /\ containerHeight = positionedImages[1].calculatedHeight

(***************************************************************************)
(* C14: imagesWithDimensions changes only by being emptied or by the store *)
(* of a batch; a store takes a batch none of whose promises is pending,    *)
(* and the stored list has, at every position i of the snapshot the batch  *)
(* was started from, the value its promises resolved for the asset with    *)
(* the id at position i, whatever order the promises resolved in.          *)
(***************************************************************************)
\* the stored list is batch, matched position by position through the ids
StoredFrom(stored, batch) ==
    /\ Pending(batch) = {}
    /\ Len(stored) = Len(batch.snapshot)
    /\ \A i \in DOMAIN batch.snapshot :
           /\ stored[i].id = batch.snapshot[i].id
           /\ \E j \in DOMAIN batch.results :
                  /\ batch.results[j].pos = i
                  /\ batch.results[j].value = stored[i]

C14_CompleteBatchByIdentity ==
    [][/\ imagesWithDimensions' # imagesWithDimensions =>
              \/ imagesWithDimensions' = <<>>
              \/ Len(batches') < Len(batches)
       /\ Len(batches') < Len(batches) =>
              \E b \in DOMAIN batches :
                  /\ batches' = WithoutBatch(batches, b)
                  /\ StoredFrom(imagesWithDimensions', batches[b])]_vars

\* a first batch has been stored; the batch of the shuffle that followed has
\* resolved last position first and is about to be stored
C14_Witness ==
    /\ Len(imagesWithDimensions) = 2
    /\ Len(batches) = 1
    /\ Pending(batches[1]) = {}
    /\ batches[1].results[1].pos = 2
    /\ batches[1].results[2].pos = 1
    /\ batches[1].snapshot[1].id = imagesWithDimensions[2].id
    /\ batches[1].snapshot[2].id = imagesWithDimensions[1].id

(***************************************************************************)
(* C15: the result of a batch that was overtaken by a change of images is  *)
(* dropped: imagesWithDimensions only ever holds assets of the current     *)
(* images list, so an asset removed by a reset is never stored again.      *)
(***************************************************************************)
C15_StaleBatchDiscarded ==
    \A i \in DOMAIN imagesWithDimensions :
        \E j \in DOMAIN images : images[j].id = imagesWithDimensions[i].id

(***************************************************************************)
(* C16: every object URL created so far belongs to an asset of images or   *)
(* has been revoked; and a step that empties a non-empty images list has   *)
(* revoked the URL of every asset the list held, whether the reset came    *)
(* from the button or from the 'r' key.                                    *)
(***************************************************************************)
\* the object URLs created so far
CreatedUrls == 1 .. nextId - 1

UrlsOf(list) == {list[i].url : i \in DOMAIN list}

C16_ResetRevokesEveryUrl ==
    /\ [](\A url \in CreatedUrls : url \in UrlsOf(images) \/ url \in revoked)
    /\ [][Len(images) > 0 /\ Len(images') = 0 => UrlsOf(images) \subseteq revoked']_vars

\* two assets were imported and then removed by a reset
C16_Witness ==
    /\ nextId = 3
    /\ images = <<>>
    /\ hotkeyImages = <<>>
    /\ revoked = {1, 2}

(***************************************************************************)
(* C17 as claimed: a resolution has been started exactly once for every    *)
(* asset imported so far.                                                  *)
(***************************************************************************)
C17_ResolvedExactlyOnce ==
    \A id \in CreatedUrls : started[id] = 1

(***************************************************************************)
(* C17: resolutions are started only by a loadDimensions call for a        *)
(* non-empty images list, and such a call starts one for every asset of    *)
(* the list it is made for, the assets resolved before included; every     *)
(* import of an image file and every shuffle makes such a call; a changed  *)
(* sort criterion or sort order starts none.                               *)
(***************************************************************************)
IdsOf(list) == {list[i].id : i \in DOMAIN list}

\* a loadDimensions call that reaches Promise.all
BatchStarted == Len(batches') > Len(batches)

C17_ResolvedOnEveryListChange ==
    [][/\ started' # started => BatchStarted
       /\ BatchStarted =>
              /\ Len(images') > 0
              /\ batches'[Len(batches')] = [snapshot |-> images', results |-> <<>>]
              /\ \A id \in DOMAIN started :
                     started'[id] = started[id] + (IF id \in IdsOf(images') THEN 1 ELSE 0)
       /\ nextId' > nextId => BatchStarted
       /\ isShuffled' /\ (~isShuffled \/ images' # images) => BatchStarted
       /\ sortCriteria' # sortCriteria \/ sortOrder' # sortOrder => started' = started]_vars

\* the first asset was resolved again when the second was imported; the sort
\* criterion was changed as well
C17_Witness ==
    /\ nextId = 3
    /\ started[1] = 2
    /\ started[2] = 1
    /\ sortCriteria = "size"
    /\ ~isShuffled

(***************************************************************************)
(* C18: once a handler and the effects of its render are done,             *)
(* positionedImages is the layout of the current sortedImages for the      *)
(* current columnCount and the container width that the current           *)
(* window.innerWidth and fullscreen flag give.                             *)
(***************************************************************************)
C18_LayoutFollowsViewport ==
    positionedImages
        = calculateWaterfallLayout(sortedImages, columnCount, innerWidth, isFullscreen)

(***************************************************************************)
(* C19: columnCount is an integer from 1 to 10 in every state, and the     *)
(* layout has only been run with that many columns: the accumulators of    *)
(* the last pass number between 1 and 10.                                  *)
(***************************************************************************)
C19_ColumnCountInRange ==
    /\ columnCount \in 1 .. 10
    /\ \E k \in 1 .. 10 : DOMAIN columnHeights = 0 .. k - 1

\* the '0' key or the slider's upper end, with an image laid out in ten columns
C19_Witness ==
    /\ columnCount = 10
    /\ DOMAIN columnHeights = 0 .. 9
    /\ Len(positionedImages) = 2
    /\ positionedImages[2].column = 1

(***************************************************************************)
(* C21 as claimed: the pass at twice the container width puts every image  *)
(* into the column it had at the single width, and every calculatedHeight  *)
(* grows by the factor by which calculatedWidth grows.                     *)
(***************************************************************************)
\* the second of two passes is complete
ScaledPassDone == pc = "done" /\ passes > 1

IsRounded(h, num, den) ==
    /\ 2 * num - den < 2 * den * h
    /\ 2 * den * h <= 2 * num + den

\* w is the floor of num / den; den > 0
IsFloor(w, num, den) ==
    /\ den * w <= num
    /\ num < den * (w + 1)

Quiescent == batches = <<>>

C26_QuiescentListsAgree ==
    Quiescent => IdsOf(imagesWithDimensions) = IdsOf(images)

(***************************************************************************)
(* C28 as claimed: no image on display has an object URL that has been     *)
(* revoked.                                                                *)
(***************************************************************************)
C28_NoRevokedUrlDisplayed ==
    \A i \in DOMAIN positionedImages : positionedImages[i].url \notin revoked

(***************************************************************************)
(* C23: while isShuffled is false, sortedImages holds the images of        *)
(* filteredImages, each once, ordered by the selected criterion: no image  *)
(* stands before one that compares smaller (ascending) or greater          *)
(* (descending); and a step that changes the criterion or the order        *)
(* leaves isShuffled false.                                                *)
(***************************************************************************)
\* the filteredImages memo of the current render
filteredImages == filteredImagesMemo(imagesWithDimensions, searchTerm)

IsPermutationOf(list, other) ==
    /\ Len(list) = Len(other)
    /\ \A i \in DOMAIN other :
           Cardinality({j \in DOMAIN list : list[j] = other[i]})
             = Cardinality({j \in DOMAIN other : other[j] = other[i]})

InSelectedOrder(list) ==
    \A i, j \in DOMAIN list :
        i < j => IF sortOrder = "asc"
                 THEN Comparison(list[i], list[j], sortCriteria) <= 0
                 ELSE Comparison(list[i], list[j], sortCriteria) >= 0

C23_SortedUnlessShuffled ==
    /\ [](~isShuffled => /\ IsPermutationOf(sortedImages, filteredImages)
                         /\ InSelectedOrder(sortedImages))
    /\ [][sortCriteria' # sortCriteria \/ sortOrder' # sortOrder => ~isShuffled']_vars

\* two images in descending order, which is not the order of the import
C23_Witness ==
    /\ ~isShuffled
    /\ sortOrder = "desc"
    /\ Len(sortedImages) = 2
    /\ sortedImages # filteredImages
    /\ Comparison(sortedImages[1], sortedImages[2], sortCriteria) > 0

(***************************************************************************)
(* C24 as claimed: filteredImages holds, in the order of                   *)
(* imagesWithDimensions, the images whose name contains the trimmed search *)
(* term without regard to case: all of them for a blank term, and for a    *)
(* term with surrounding whitespace the same images as for the trimmed     *)
(* term.                                                                   *)
(***************************************************************************)
NameContains(image, term) == includes(toLowerCase(image.name), toLowerCase(term))

C24_FilterByTrimmedTerm ==
    filteredImages
      = SelectSeq(imagesWithDimensions, LAMBDA image : NameContains(image, trim(searchTerm)))

(***************************************************************************)
(* C25 as claimed: after a shuffle, and until the next import or sort      *)
(* change, the gallery shows the images in the order of the shuffled list: *)
(* while isShuffled is true and no batch is in flight, sortedImages has    *)
(* the assets of images in the order of images.                            *)
(***************************************************************************)
IdSeq(list) == [i \in DOMAIN list |-> list[i].id]

C25_ShuffledOrderShown ==
    isShuffled /\ Quiescent => IdSeq(sortedImages) = IdSeq(images)

(***************************************************************************)
(* C30: while every dragleave matches a dragenter not yet matched since    *)
(* the last drop, dragCounter is the number of unmatched dragenter events  *)
(* and so never negative, isDragOver is false whenever none is unmatched,  *)
(* and a drop leaves dragCounter = 0 and isDragOver false.                 *)
(***************************************************************************)
C30_DragOverlay ==
    /\ [](/\ dragCounter >= 0
          /\ dragCounter = dragDepth
          /\ (dragDepth = 0 => ~isDragOver))
    /\ [][Drop => dragCounter' = 0 /\ ~isDragOver']_vars

\* a drop has imported an image and the overlay is down
C30_Witness ==
    /\ Len(images) > 0
    /\ dragCounter = 0
    /\ ~isDragOver

(***************************************************************************)
(* C22 as claimed: the preview opened by a click on a tile shows the image *)
(* of that tile: after openPreview(i) from tile i, sortedImages[i] is the  *)
(* asset that positionedImages[i] was when the tile was clicked.           *)
(***************************************************************************)
C22_PreviewShowsClickedTile ==
    [][OpenPreview =>
          /\ previewIndex' + 1 \in DOMAIN sortedImages'
          /\ sortedImages'[previewIndex' + 1].id = positionedImages[previewIndex' + 1].id]_vars

(***************************************************************************)
(* C27 as claimed: while the preview is open previewIndex is an index of   *)
(* sortedImages, and while it is closed previewIndex is -1, also when the  *)
(* displayed list changes while the preview is open.                       *)
(***************************************************************************)
C27_PreviewIndexInRange ==
    /\ isPreviewOpen => 0 <= previewIndex /\ previewIndex < Len(sortedImages)
    /\ ~isPreviewOpen => previewIndex = -1

(***************************************************************************)
(* C29: every reset, from the button or the 'r' key, leaves images empty,  *)
(* searchTerm empty, isShuffled false, sortCriteria 'name', sortOrder      *)
(* 'asc', columnCount 5, the preview closed with previewIndex -1, and      *)
(* isDarkMode, isFullscreen and isDragOver as they were.                   *)
(***************************************************************************)
C29_ResetEffect ==
    [][ResetButton \/ ResetHotkey =>
          /\ images' = <<>>
          /\ searchTerm' = <<>>
          /\ isShuffled' = FALSE
          /\ sortCriteria' = "name"
          /\ sortOrder' = "asc"
          /\ columnCount' = 5
          /\ isPreviewOpen' = FALSE
          /\ previewIndex' = -1
          /\ UNCHANGED <<isDarkMode, isFullscreen, isDragOver>>]_vars

\* a reset has revoked the URLs of a gallery in dark mode and fullscreen with
\* the drag overlay up: the settings are the defaults, the three are kept
C29_Witness ==
    /\ revoked # {}
    /\ images = <<>>
    /\ searchTerm = <<>>
    /\ sortCriteria = "name"
    /\ sortOrder = "asc"
    /\ columnCount = 5
    /\ ~isPreviewOpen
    /\ isDarkMode
    /\ isFullscreen
    /\ isDragOver

====
